---------------------------- MODULE Spec2Model ----------------------------
(***************************************************************************)
(* State-machine model of the vibe-car-game demos:                         *)
(*   - the hover-tank driving game (nextjs-car-game, CarGame.tsx),          *)
(*   - the plain driving game (simple-js, game.js),                        *)
(*   - the witcher action game (witcher-game, Game.tsx / Enemy).           *)
(*                                                                         *)
(* Numbers are fixed point.  Vehicle speeds of the hover tank are in       *)
(* 1/1000 of a world unit per frame, steering angles in 1/1000 rad; the    *)
(* plain car's speeds are in 1/2000 of a world unit per frame; heights of   *)
(* the car and of projectiles are in 1/10000 of a world unit.  The frame    *)
(* delta of the hover tank is k/60 s, k = delta * 60 a whole number of     *)
(* reference frames.  Witcher positions are in 1/100 of a world unit on    *)
(* the x axis, times in milliseconds.                                      *)
(***************************************************************************)
EXTENDS Integers, Sequences, FiniteSets

VARIABLES
  \* ---- vehicles (CarGame.tsx, game.js) ----
  program,        \* which driving demo runs: "tank" or "plain"
  speed,          \* carData.speed
  steeringAngle,  \* carData.steeringAngle (hover tank only)
  turn,           \* change of car.rotation.y made by the last frame
  moved,          \* signed length of the movement vector of the last frame
  fixedDelta,     \* the delta of every frame of a fixed-delta run (0: free)
  frames,         \* frames run so far in a fixed-delta run
  carRef,         \* carRef.current is set
  sceneRef,       \* sceneRef.current is set
  carY,           \* car.position.y, in 1/10000 of a world unit
  shoot,          \* controlsRef.current.shoot
  lastShotTime,   \* carData.lastShotTime
  projectiles,    \* projectilesRef.current
  sceneMeshes,    \* the projectile meshes in the scene, by spawn number
  shots,          \* history: projectiles spawned so far
  spawnTimes,     \* history: times of the last two spawns
  elapsed,        \* history: sum of delta * 60 over the frames of a timed run
  travelled,      \* history: sum of the movement lengths of a timed run
  heading,        \* history: sum of the rotation changes of a timed run
  \* ---- witcher game (Game.tsx: Game, Enemy; useGameControls) ----
  gameState,      \* Game: [isGameActive, playerHealth, score]
  enemies,        \* Game: ids of the enemy collection
  comp,           \* the mounted Enemy components, by id
  playerPos,      \* Game: playerPos.x, the playerPosition prop of the enemies
  block,          \* useGameControls: controls.block
  now,            \* Date.now()
  effectPending,  \* the spawn effect is due (isGameActive changed, or mount)
  spawnInterval,  \* the 10 s spawn interval is registered
  spawned,        \* timer spawns so far
  lastOp,         \* history: the Game handler that ran last, with its input
  deathEvents,    \* history: onDeath calls per enemy id
  deaths,         \* history: handleEnemyDeath calls since the last restart
  focus,          \* the enemy whose frames are followed (NoEnemy: none)
  frameNo,        \* enemy frames followed so far
  hits,           \* takeDamage calls so far
  \* ---- witcher game (Player.tsx; useGameControls) ----
  attack,         \* useGameControls: controls.attack
  player          \* Player: [isAttacking, isBlocking] as last rendered

handleVars == <<carRef, sceneRef>>

gunVars == <<shoot, lastShotTime, projectiles, sceneMeshes, shots, spawnTimes>>

runVars == <<fixedDelta, frames, elapsed, travelled, heading>>

vehicleVars == <<program, speed, steeringAngle, turn, moved, carY, handleVars,
                 gunVars, runVars>>

witcherVars == <<gameState, enemies, comp, playerPos, block, now, effectPending,
                 spawnInterval, spawned, lastOp, deathEvents, deaths, focus, frameNo,
                 hits>>

playerVars == <<attack, player>>

vars == <<vehicleVars, witcherVars, playerVars>>

---------------------------------------------------------------------------
(* Arithmetic helpers *)

Min(a, b) == IF a < b THEN a ELSE b
Max(a, b) == IF a > b THEN a ELSE b
Abs(a) == IF a < 0 THEN -a ELSE a
Sign(a) == IF a > 0 THEN 1 ELSE IF a < 0 THEN -1 ELSE 0

\* Division rounding toward zero (the fixed-point image of a real product).
TruncDiv(a, b) == IF a >= 0 THEN a \div b ELSE -((-a) \div b)

---------------------------------------------------------------------------
(* Hover tank: CarGame.tsx *)

\* carDataRef initial values, in fixed point (speeds x1000, angles x1000).
\* friction 0.99 is kept as the fraction frictionNum / frictionDen.
tankCarData ==
  [ maxSpeed         |-> 400,
    acceleration     |-> 8,
    brakeStrength    |-> 120,
    frictionNum      |-> 99,
    frictionDen      |-> 100,
    maxSteeringAngle |-> 50,
    steeringSpeed    |-> 3,
    steeringReturn   |-> 20 ]

\* cappedDelta = Math.min(delta, 0.1): at most 0.1 s = 6 reference frames.
\* The deltas tried: a 60 Hz frame, a 30 Hz frame and the capped frame.
MaxDeltaFrames == 6
Deltas == {1, 2, MaxDeltaFrames}

\* controlsRef.current / controls: every combination of the held-key flags
\* the key-down and key-up listeners can leave behind.
Controls == [forward : BOOLEAN, backward : BOOLEAN, left : BOOLEAN, right : BOOLEAN]

\* speed *= Math.pow(friction, delta * 60), one factor of friction at a time
RECURSIVE ApplyFriction(_, _)
ApplyFriction(s, k) ==
  IF k = 0 THEN s
  ELSE ApplyFriction(TruncDiv(s * tankCarData.frictionNum, tankCarData.frictionDen), k - 1)

\* Mutant of TankClampSpeed: the reverse limit is left out.
TankClampSpeedNoReverseLimit(s) == Min(s, tankCarData.maxSpeed)

\* Clamp speed to [-maxSpeed * 0.5, maxSpeed].
TankClampSpeed(s) ==
  Max(Min(s, tankCarData.maxSpeed), -(tankCarData.maxSpeed \div 2))

\* Mutant of TankSpeedStep: the clamp is applied before the friction.
TankSpeedStepClampFirst(s, c, k) ==
  LET scaledAcceleration == tankCarData.acceleration * k
      scaledBrakeStrength == tankCarData.brakeStrength * k
      s1 == IF c.forward THEN s + scaledAcceleration ELSE s
      s2 == IF c.backward
              THEN IF s1 > 0 THEN s1 - scaledBrakeStrength
                             ELSE s1 - (scaledAcceleration \div 2)
              ELSE s1
  IN  ApplyFriction(TankClampSpeed(s2), k)

\* updateCar, speed part: acceleration, braking / reverse, friction, clamp.
TankSpeedStep(s, c, k) ==
  LET scaledAcceleration == tankCarData.acceleration * k
      scaledBrakeStrength == tankCarData.brakeStrength * k
      s1 == IF c.forward THEN s + scaledAcceleration ELSE s
      s2 == IF c.backward
              THEN IF s1 > 0 THEN s1 - scaledBrakeStrength
                             ELSE s1 - (scaledAcceleration \div 2)
              ELSE s1
      s3 == ApplyFriction(s2, k)
  IN  TankClampSpeed(s3)

\* Mutant of TankClampSteering: only the left-hand limit is applied.
TankClampSteeringLeftOnly(a) == Min(a, tankCarData.maxSteeringAngle)

\* Clamp steering angle to [-maxSteeringAngle, maxSteeringAngle].
TankClampSteering(a) ==
  Max(Min(a, tankCarData.maxSteeringAngle), -tankCarData.maxSteeringAngle)

\* Mutant of TankSteerStep: the return to the centre does not stop at 0.
TankSteerStepOvershoot(a, c, k) ==
  LET scaledSteeringSpeed == tankCarData.steeringSpeed * k
      scaledSteeringReturn == tankCarData.steeringReturn * k
      a1 == IF c.left THEN a + scaledSteeringSpeed
            ELSE IF c.right THEN a - scaledSteeringSpeed
            ELSE IF a > 0 THEN a - scaledSteeringReturn
            ELSE IF a < 0 THEN a + scaledSteeringReturn
            ELSE a
  IN  TankClampSteering(a1)

\* updateCar, steering part.
TankSteerStep(a, c, k) ==
  LET scaledSteeringSpeed == tankCarData.steeringSpeed * k
      scaledSteeringReturn == tankCarData.steeringReturn * k
      a1 == IF c.left THEN a + scaledSteeringSpeed
            ELSE IF c.right THEN a - scaledSteeringSpeed
            ELSE IF a > 0 THEN Max(0, a - scaledSteeringReturn)
            ELSE IF a < 0 THEN Min(0, a + scaledSteeringReturn)
            ELSE a
  IN  TankClampSteering(a1)

\* Mutant of TankTurn: the sign of the speed is left out.
TankTurnNoSign(a, s) == a * Abs(s)

\* turnEffect * Math.sign(speed) = steeringAngle * |speed| / maxSpeed * sign(speed),
\* in units of 1 / (1000 * 1000 * 0.4) rad = 2.5e-6 rad, where it is the exact
\* product steeringAngle * speed.
TankTurn(a, s) == a * Abs(s) * Sign(s)

\* Math.sin(x) * 1000 for x in 1/1000 rad: Bhaskara's rational formula
\* 16 y (pi - y) / (5 pi^2 - 4 y (pi - y)) on the half period, odd on the
\* other half.
SinMilli(x) ==
  LET r == x % 6284
      y == IF r > 3142 THEN r - 3142 ELSE r
      p == y * (3142 - y)
      s == ((((16 * p) \div 100) * 1000) \div ((5 * 3142 * 3142 - 4 * p) \div 100))
  IN  IF r > 3142 THEN -s ELSE s

\* hoverHeight = 0.8 + Math.sin(Date.now() * 0.003) * 0.1, in 1/10000.
HoverHeight(t) == 8000 + SinMilli(3 * t)

\* Mutant of TankUpdateCar: the frame runs without a car.
TankUpdateCarNoGuard(controls, k) ==
  /\ program = "tank"
  /\ speed' = TankSpeedStep(speed, controls, k)
  /\ steeringAngle' = TankSteerStep(steeringAngle, controls, k)
  /\ turn' = TankTurn(steeringAngle', speed')
  /\ moved' = speed'
  /\ carY' = HoverHeight(now)
  /\ UNCHANGED <<program, handleVars, witcherVars, playerVars>>

\* One frame of the hover tank: updateCar(delta) with delta = k / 60.
\* Without a car it returns at once.
TankUpdateCar(controls, k) ==
  /\ program = "tank"
  /\ IF carRef
       THEN /\ speed' = TankSpeedStep(speed, controls, k)
            /\ steeringAngle' = TankSteerStep(steeringAngle, controls, k)
            /\ turn' = TankTurn(steeringAngle', speed')
            /\ moved' = speed'
            /\ carY' = HoverHeight(now)
       ELSE UNCHANGED <<speed, steeringAngle, turn, moved, carY>>
  /\ UNCHANGED <<program, handleVars, witcherVars, playerVars>>

---------------------------------------------------------------------------
(* Hover tank, main cannon: handleShoot, updateProjectiles *)

\* Numbers of the cannon: heights in 1/10000, times in ms, lifetimes in 1/60 s.
gunData ==
  [ reloadTime  |-> 1000,    \* carData.reloadTime
    cannonTipY  |-> 18000,   \* cannonTip = (0, 1.8, 4.5)
    gravity     |-> 100,     \* velocity.y -= 0.01
    groundY     |-> 3000,    \* position.y <= 0.3
    maxLifeTime |-> 300 ]    \* lifeTime > 5

\* Projectiles followed in one run.
MaxShots == 2

\* controlsRef.current before any key is pressed.
NoKeys == [forward |-> FALSE, backward |-> FALSE, left |-> FALSE, right |-> FALSE]

\* Mutant of CanSpawn: the reload time is not waited for.
CanSpawnNoReload(t, last) == t - last >= 0

\* carData.canShoot && currentTime - carData.lastShotTime > carData.reloadTime
\* (canShoot is never assigned: it stays true).
CanSpawn(t, last) == t - last > gunData.reloadTime

\* The guard of handleShoot: if (!carRef.current || !sceneRef.current) return
HandlesPresent(car, scene) == car /\ scene

\* The last two of the times ts followed by t.
LastTwoTimes(ts, t) == IF ts = << >> THEN <<t>> ELSE <<ts[Len(ts)], t>>

\* handleShoot(): with both handles and the reload time passed, a projectile
\* is put at the cannon tip (the car's height + 1.8) with the horizontal
\* velocity direction * 0.8, into the scene and the list, and lastShotTime
\* becomes the current time.
HandleShoot ==
  IF /\ HandlesPresent(carRef, sceneRef)
     /\ CanSpawn(now, lastShotTime)
     /\ shots < MaxShots
    THEN /\ shots' = shots + 1
         /\ projectiles' = Append(projectiles,
                [id |-> shots', y |-> carY + gunData.cannonTipY, vy |-> 0,
                 lifeTime |-> 0])
         /\ sceneMeshes' = sceneMeshes \cup {shots'}
         /\ lastShotTime' = now
         /\ spawnTimes' = LastTwoTimes(spawnTimes, now)
    ELSE UNCHANGED <<shots, projectiles, sceneMeshes, lastShotTime, spawnTimes>>

\* handleKeyDown, space bar (also every auto-repeat of the held key):
\* controlsRef.current.shoot = true; handleShoot().
KeyDownShoot ==
  /\ program = "tank"
  /\ shoot' = TRUE
  /\ HandleShoot
  /\ UNCHANGED <<program, speed, steeringAngle, turn, moved, carY, handleVars,
                 runVars, witcherVars, playerVars>>

\* handleKeyUp, space bar: controlsRef.current.shoot = false.
KeyUpShoot ==
  /\ program = "tank"
  /\ shoot' = FALSE
  /\ UNCHANGED <<program, speed, steeringAngle, turn, moved, carY, handleVars,
                 lastShotTime, projectiles, sceneMeshes, shots, spawnTimes,
                 runVars, witcherVars, playerVars>>

\* handleButtonDown('shoot') of the on-screen button (mouse down, touch start).
ButtonDownShoot ==
  /\ program = "tank"
  /\ shoot' = TRUE
  /\ HandleShoot
  /\ UNCHANGED <<program, speed, steeringAngle, turn, moved, carY, handleVars,
                 runVars, witcherVars, playerVars>>

\* handleButtonUp('shoot').
ButtonUpShoot ==
  /\ program = "tank"
  /\ shoot' = FALSE
  /\ UNCHANGED <<program, speed, steeringAngle, turn, moved, carY, handleVars,
                 lastShotTime, projectiles, sceneMeshes, shots, spawnTimes,
                 runVars, witcherVars, playerVars>>

\* Mutant of Spent: a projectile is only removed for its age.
SpentByAgeOnly(y, lifeTime) == lifeTime > gunData.maxLifeTime

\* A projectile is removed when it is at the ground or too old.
Spent(y, lifeTime) == y <= gunData.groundY \/ lifeTime > gunData.maxLifeTime

\* One projectile over one frame: position += velocity, then gravity, then
\* lifeTime += delta.
MoveProjectile(p, k) ==
  [p EXCEPT !.y = p.y + p.vy, !.vy = p.vy - gunData.gravity,
            !.lifeTime = p.lifeTime + k]

\* The elements of the sequence s that are not spent.
RECURSIVE Active(_)
Active(s) ==
  IF s = << >> THEN << >>
  ELSE IF Spent(Head(s).y, Head(s).lifeTime) THEN Active(Tail(s))
  ELSE <<Head(s)>> \o Active(Tail(s))

\* updateProjectiles(delta): without a scene it returns at once; otherwise
\* every projectile moves and the spent ones leave the scene and the list.
UpdateProjectiles(k) ==
  IF sceneRef
    THEN LET movedOn == [i \in 1..Len(projectiles) |->
                           MoveProjectile(projectiles[i], k)]
         IN  /\ projectiles' = Active(movedOn)
             /\ sceneMeshes' = sceneMeshes \
                   {movedOn[i].id : i \in {j \in 1..Len(movedOn) :
                        Spent(movedOn[j].y, movedOn[j].lifeTime)}}
    ELSE UNCHANGED <<projectiles, sceneMeshes>>

\* One pass of animate: updateCar(cappedDelta); updateProjectiles(cappedDelta).
Animate(controls, k) ==
  /\ TankUpdateCar(controls, k)
  /\ UpdateProjectiles(k)
  /\ UNCHANGED <<shoot, lastShotTime, shots, spawnTimes>>

---------------------------------------------------------------------------
(* Plain car: game.js *)

\* carData of game.js, speeds x2000 (so acceleration / 2 is a whole number).
plainCarData ==
  [ maxSpeed      |-> 600,
    acceleration  |-> 10,
    deceleration  |-> 6,
    brakeStrength |-> 200,
    turnSpeed     |-> 30,
    turnThreshold |-> 20 ]

\* Speed limits of game.js: [-maxSpeed / 2, maxSpeed].
PlainClampSpeed(s) ==
  IF s > plainCarData.maxSpeed THEN plainCarData.maxSpeed
  ELSE IF s < -(plainCarData.maxSpeed \div 2) THEN -(plainCarData.maxSpeed \div 2)
  ELSE s

\* Mutant of PlainSpeedStep: the deceleration ignores the sign of the speed
\* and does not stop the car.
PlainSpeedStepNoSign(s, c) ==
  LET s1 == IF c.forward THEN s + plainCarData.acceleration
            ELSE IF c.backward
              THEN IF s > 0 THEN s - plainCarData.brakeStrength
                            ELSE s - (plainCarData.acceleration \div 2)
            ELSE s - plainCarData.deceleration
  IN  PlainClampSpeed(s1)

\* updateCar of game.js, speed part.
PlainSpeedStep(s, c) ==
  LET s1 == IF c.forward THEN s + plainCarData.acceleration
            ELSE IF c.backward
              THEN IF s > 0 THEN s - plainCarData.brakeStrength
                            ELSE s - (plainCarData.acceleration \div 2)
            ELSE LET d == IF s > 0 THEN s - plainCarData.deceleration
                          ELSE IF s < 0 THEN s + plainCarData.deceleration
                          ELSE s
                 IN  IF Abs(d) < plainCarData.deceleration THEN 0 ELSE d
  IN  PlainClampSpeed(s1)

\* updateCar of game.js, turning: only while |speed| > 0.01; left and right
\* are two separate ifs, so both held cancel.  In 1/1000 rad.
PlainTurn(s, c) ==
  IF Abs(s) > plainCarData.turnThreshold
    THEN (IF c.left THEN plainCarData.turnSpeed * Sign(s) ELSE 0)
         - (IF c.right THEN plainCarData.turnSpeed * Sign(s) ELSE 0)
    ELSE 0

\* One frame of the plain car: updateCar().
PlainUpdateCar(controls) ==
  /\ program = "plain"
  /\ speed' = PlainSpeedStep(speed, controls)
  /\ turn' = PlainTurn(speed', controls)
  /\ moved' = speed'
  /\ carY' = 0
  /\ UNCHANGED <<program, steeringAngle, handleVars, witcherVars, playerVars>>

---------------------------------------------------------------------------
(* Witcher game: Game.tsx (Game and Enemy), useGameControls *)

\* baseStats of Enemy, radii x100.
baseStats ==
  [ wolf |-> [health |-> 50,  maxHealth |-> 50,  detectionRadius |-> 1500,
              attackRadius |-> 200, attackPower |-> 10],
    bear |-> [health |-> 100, maxHealth |-> 100, detectionRadius |-> 1200,
              attackRadius |-> 250, attackPower |-> 20],
    deer |-> [health |-> 30,  maxHealth |-> 30,  detectionRadius |-> 1800,
              attackRadius |-> 0, attackPower |-> 0] ]

EnemyTypes == {"wolf", "bear", "deer"}

\* Numbers of Enemy and Game, distances x100 per 60 Hz frame, times in ms.
enemyData ==
  [ attackCooldown |-> 1000,   \* const attackCooldown = 1000
    chaseSpeed     |-> 5,      \* 0.05 * delta * 60
    fleeSpeed      |-> 8,      \* 0.08 * delta * 60
    playerDamage   |-> 20,     \* foundEnemyRef.takeDamage(20)
    spawnPeriod    |-> 10000,  \* setInterval(..., 10000)
    numWolves      |-> 3,      \* for (let i = 0; i < 3; i++)
    numDeer        |-> 5 ]     \* for (let i = 0; i < 5; i++)

\* Enemy ids: `${type}-${tag}`.
EnemyId(type, tag) == [type |-> type, tag |-> tag]
NoEnemy == [type |-> "none", tag |-> 0]

\* initialEnemies of the spawn effect: wolf-0..2, bear-1, deer-0..4.
InitialEnemies ==
  {EnemyId("wolf", i) : i \in 0..(enemyData.numWolves - 1)}
    \cup {EnemyId("bear", 1)}
    \cup {EnemyId("deer", i) : i \in 0..(enemyData.numDeer - 1)}

\* useState initial value of gameState.
initialGameState == [isGameActive |-> TRUE, playerHealth |-> 100, score |-> 0]

\* The state of a freshly mounted Enemy at x = pos: useState initializer,
\* group position = initialPosition, lastAttackTime = useRef(0).
\* History fields: attackTimes (times of its last two attack events),
\* frameDistance (distanceToPlayer of its last frame, -1 before the first),
\* damageTaken (sum of the amounts of the takeDamage calls it received).
\* registeredHealth is enemy.health as group.current.takeDamage reads it: the
\* effect that stores takeDamage on the group has the dependency list [id],
\* so it runs on mount only and the stored takeDamage is the one of the
\* first render, whose enemy is this initial state.
Mount(id, pos) ==
  [ health         |-> baseStats[id.type].health,
    registeredHealth |-> baseStats[id.type].health,
    isDead         |-> FALSE,
    isAttacking    |-> FALSE,
    aggroState     |-> "idle",
    position       |-> pos,
    groupPosition  |-> pos,
    lastAttackTime |-> 0,
    attackTimes    |-> << >>,
    frameDistance  |-> -1,
    damageTaken    |-> 0 ]

\* The record of the handler that ran last.
Call(op, id, amount, blk, before) ==
  [op |-> op, id |-> id, amount |-> amount, blocked |-> blk, before |-> before]

NoCall == Call("none", NoEnemy, 0, FALSE, 0)

EmptyMap == [i \in {} |-> 0]


\* Where the enemies that are not followed stand: one outcome of
\* (Math.random() - 0.5) * 40, outside every detection radius of a player
\* at PlayerPositions.
ParkedPosition == 1950

\* Where a timer spawn lands: one outcome of cos(angle) * (30 + random * 10).
TimerSpawnPosition == 3500

\* The x positions updatePlayerPosition reports.
PlayerPositions == {0, -150, -2000}

\* Bounds of the witcher runs.
MaxSpawns == 1
MaxDeaths == 1
MaxHits == 3
MaxEnemyFrames == 4
MaxTicks == 4

\* Date.now() when the page is mounted, and the clock step.
StartTime == 5000
ClockStep == 500

\* The components of the ids in ids: those mounted stay, new ones mount at pos.
Components(ids, pos) ==
  [i \in ids |-> IF i \in DOMAIN comp THEN comp[i]
                 ELSE Mount(i, IF i = focus THEN pos ELSE
                               IF i \in InitialEnemies THEN ParkedPosition
                               ELSE TimerSpawnPosition)]

\* The spawn effect (useEffect on [gameState.isGameActive]): the cleanup of
\* the previous run clears the interval; while the game is active an empty
\* collection gets the initial batch and the interval is registered.
SpawnEffect(pos) ==
  /\ effectPending
  /\ effectPending' = FALSE
  /\ IF gameState.isGameActive
       THEN /\ enemies' = IF enemies = {} THEN InitialEnemies ELSE enemies
            /\ comp' = Components(enemies', pos)
            /\ spawnInterval' = TRUE
       ELSE /\ spawnInterval' = FALSE
            /\ UNCHANGED <<enemies, comp>>
  /\ lastOp' = Call("spawnEffect", NoEnemy, 0, FALSE, gameState.playerHealth)
  /\ UNCHANGED <<gameState, playerPos, block, now, spawned, deathEvents,
                 deaths, focus, frameNo, hits, vehicleVars, playerVars>>

\* The interval callback: one more enemy of a random type, id
\* `${type}-${Date.now()}`; a period has passed since the previous firing.
\* The interval is a timer of its own: it fires as long as it has not been
\* cleared, also between the commit of a new isGameActive and the cleanup
\* of the spawn effect, which React runs later as a passive effect.
SpawnTimer(type) ==
  /\ spawnInterval
  /\ spawned < MaxSpawns
  /\ now' = now + enemyData.spawnPeriod
  /\ enemies' = enemies \cup {EnemyId(type, now')}
  /\ comp' = Components(enemies', TimerSpawnPosition)
  /\ spawned' = spawned + 1
  /\ lastOp' = Call("spawnInterval", EnemyId(type, now'), 0, FALSE,
                    gameState.playerHealth)
  /\ UNCHANGED <<gameState, playerPos, block, effectPending, spawnInterval,
                 deathEvents, deaths, focus, frameNo, hits, vehicleVars, playerVars>>

\* useGameControls: mouse button 2 down / up sets / clears controls.block.
HandleMouseDown ==
  /\ ~effectPending
  /\ block' = TRUE
  /\ UNCHANGED <<gameState, enemies, comp, playerPos, now, effectPending,
                 spawnInterval, spawned, lastOp, deathEvents, deaths, focus,
                 frameNo, hits, vehicleVars, playerVars>>

HandleMouseUp ==
  /\ ~effectPending
  /\ block' = FALSE
  /\ UNCHANGED <<gameState, enemies, comp, playerPos, now, effectPending,
                 spawnInterval, spawned, lastOp, deathEvents, deaths, focus,
                 frameNo, hits, vehicleVars, playerVars>>

\* Mutant of ActualDamage: the block flag is not looked at.
ActualDamageUnblocked(damage, blk) == damage

\* actualDamage = controls.block ? Math.ceil(damage / 2) : damage
ActualDamage(damage, blk) == IF blk THEN (damage + 1) \div 2 ELSE damage

\* Mutant of EnemyAttackUpdate: the death of the player does not end the game.
EnemyAttackUpdateNoGameOver(prev, actualDamage) ==
  [prev EXCEPT !.playerHealth = Max(0, prev.playerHealth - actualDamage)]

\* The updater handleEnemyAttack passes to setGameState.
EnemyAttackUpdate(prev, actualDamage) ==
  LET newHealth == Max(0, prev.playerHealth - actualDamage)
  IN  IF newHealth <= 0 /\ prev.isGameActive
        THEN [prev EXCEPT !.playerHealth = 0, !.isGameActive = FALSE]
        ELSE [prev EXCEPT !.playerHealth = newHealth]

\* handleEnemyAttack(damage); a change of isGameActive makes the spawn
\* effect due.
HandleEnemyAttack(damage) ==
  /\ gameState' = EnemyAttackUpdate(gameState, ActualDamage(damage, block))
  /\ effectPending' = (gameState'.isGameActive # gameState.isGameActive)
  /\ lastOp' = Call("handleEnemyAttack", NoEnemy, damage, block,
                    gameState.playerHealth)

\* Mutant of HandleEnemyDeath: the dead enemy is left in the collection.
HandleEnemyDeathKeepsEnemy(id) ==
  /\ enemies' = enemies
  /\ gameState' = [gameState EXCEPT !.score = @ + 10]
  /\ deaths' = deaths + 1
  /\ deathEvents' =
       [i \in DOMAIN deathEvents \cup {id} |->
          (IF i \in DOMAIN deathEvents THEN deathEvents[i] ELSE 0)
            + (IF i = id THEN 1 ELSE 0)]

\* handleEnemyDeath(id): the enemy leaves the collection (its component is
\* unmounted) and the score rises by 10.
HandleEnemyDeath(id) ==
  /\ enemies' = enemies \ {id}
  /\ gameState' = [gameState EXCEPT !.score = @ + 10]
  /\ deaths' = deaths + 1
  /\ deathEvents' =
       [i \in DOMAIN deathEvents \cup {id} |->
          (IF i \in DOMAIN deathEvents THEN deathEvents[i] ELSE 0)
            + (IF i = id THEN 1 ELSE 0)]

\* Mutant of RestartState: the score is carried over.
RestartStateKeepScore(prev) == [initialGameState EXCEPT !.score = prev.score]

\* The game state handleRestart sets.
RestartState(prev) == initialGameState

\* handleRestart(): the initial game state and an empty collection.
HandleRestart ==
  /\ ~effectPending
  /\ gameState' = RestartState(gameState)
  /\ enemies' = {}
  /\ comp' = EmptyMap
  /\ effectPending' = (gameState'.isGameActive # gameState.isGameActive)
  /\ lastOp' = Call("handleRestart", NoEnemy, 0, FALSE, gameState.playerHealth)
  /\ deaths' = 0
  /\ deathEvents' = EmptyMap
  /\ UNCHANGED <<playerPos, block, now, spawnInterval, spawned, focus, frameNo,
                 hits, vehicleVars, playerVars>>

\* Some predator of the collection attacks: onAttackPlayer(enemy.attackPower).
EnemyAttacks(id) ==
  /\ ~effectPending
  /\ id \in enemies
  /\ id.type # "deer"
  /\ HandleEnemyAttack(baseStats[id.type].attackPower)
  /\ UNCHANGED <<enemies, comp, playerPos, block, now, spawnInterval, spawned,
                 deathEvents, deaths, focus, frameNo, hits, vehicleVars, playerVars>>

\* Some enemy of the collection dies: onDeath(enemy.id).
EnemyDies(id) ==
  /\ ~effectPending
  /\ id \in enemies
  /\ deaths < MaxDeaths
  /\ HandleEnemyDeath(id)
  /\ comp' = Components(enemies', 0)
  /\ lastOp' = Call("handleEnemyDeath", id, 0, FALSE, gameState.playerHealth)
  /\ UNCHANGED <<playerPos, block, now, effectPending, spawnInterval, spawned,
                 focus, frameNo, hits, vehicleVars, playerVars>>

\* The amounts takeDamage is called with: the player's hit and the second
\* hit of the documented example.
Amounts == {enemyData.playerDamage, 30}

\* takeDamage(amount) of the enemy id, as stored on its group: the new
\* health is computed from the enemy the stored closure holds; a dead enemy
\* is reported with onDeath(enemy.id).
TakeDamage(id, amount) ==
  /\ ~effectPending
  /\ id \in enemies
  /\ hits < MaxHits
  /\ hits' = hits + 1
  /\ LET newHealth == Max(0, comp[id].registeredHealth - amount)
         isDead == newHealth <= 0
     IN  IF isDead
           THEN /\ HandleEnemyDeath(id)
                /\ comp' = Components(enemies', 0)
           ELSE /\ comp' = [comp EXCEPT ![id].health = newHealth,
                                        ![id].isDead = isDead,
                                        ![id].damageTaken = @ + amount]
                /\ UNCHANGED <<enemies, gameState, deaths, deathEvents>>
  /\ lastOp' = Call("takeDamage", id, amount, FALSE, comp[id].health)
  /\ UNCHANGED <<playerPos, block, now, effectPending, spawnInterval, spawned,
                 focus, frameNo, vehicleVars, playerVars>>

\* Mutant of AttackReady: the time of the last attack is compared with 0.
AttackReadyNoCooldown(nowT, last) == nowT - last > 0

\* now - lastAttackTime.current > attackCooldown
AttackReady(nowT, last) == nowT - last > enemyData.attackCooldown

\* Mutant of AggroState: the attack branch is open to the deer.
AggroStateDeerAttacks(type, d) ==
  IF d <= baseStats[type].attackRadius THEN "attack"
  ELSE IF d <= baseStats[type].detectionRadius
         THEN (IF type = "deer" THEN "flee" ELSE "chase")
  ELSE "idle"

\* Mutant of AggroState: the detection radius itself is outside the range.
AggroStateOpenRange(type, d) ==
  IF d <= baseStats[type].attackRadius /\ type # "deer" THEN "attack"
  ELSE IF d < baseStats[type].detectionRadius
         THEN (IF type = "deer" THEN "flee" ELSE "chase")
  ELSE "idle"

\* The aggroState the frame sets at distance d.
AggroState(type, d) ==
  IF d <= baseStats[type].attackRadius /\ type # "deer" THEN "attack"
  ELSE IF d <= baseStats[type].detectionRadius
         THEN (IF type = "deer" THEN "flee" ELSE "chase")
  ELSE "idle"

\* The last two of the attack times ts followed by t.
LastTwo(ts, t) == IF ts = << >> THEN <<t>> ELSE <<ts[Len(ts)], t>>

\* The useFrame callback of the enemy id with delta = k / 60.  The position
\* updater reads the group either when it is queued (before the move) or
\* when the component renders next (after the move): sync chooses.
EnemyFrame(id, k, sync) ==
  /\ ~effectPending
  /\ id \in enemies
  /\ ~comp[id].isDead
  /\ frameNo < MaxEnemyFrames
  /\ frameNo' = frameNo + 1
  /\ LET enemy == comp[id]
         type == id.type
         distanceToPlayer == Abs(enemy.position - playerPos)
         aggro == AggroState(type, distanceToPlayer)
         fires == aggro = "attack" /\ AttackReady(now, enemy.lastAttackTime)
         direction == IF aggro = "flee" THEN Sign(enemy.position - playerPos)
                      ELSE Sign(playerPos - enemy.position)
         step == IF aggro = "flee" THEN enemyData.fleeSpeed * k
                 ELSE IF aggro = "chase" THEN enemyData.chaseSpeed * k
                 ELSE 0
         group == enemy.groupPosition + direction * step
     IN  /\ comp' = [comp EXCEPT ![id] =
                  [enemy EXCEPT
                     !.position = IF sync = "queued" THEN enemy.groupPosition
                                  ELSE group,
                     !.groupPosition = group,
                     !.aggroState = aggro,
                     !.isAttacking = IF fires THEN TRUE ELSE @,
                     !.lastAttackTime = IF fires THEN now ELSE @,
                     !.attackTimes = IF fires THEN LastTwo(@, now) ELSE @,
                     !.frameDistance = distanceToPlayer]]
         /\ IF fires
              THEN HandleEnemyAttack(baseStats[type].attackPower)
              ELSE UNCHANGED <<gameState, effectPending, lastOp>>
  /\ UNCHANGED <<enemies, playerPos, block, now, spawnInterval, spawned,
                 deathEvents, deaths, focus, hits, vehicleVars, playerVars>>

\* The timeout set by an attack: isAttacking back to false.
AttackAnimationEnd(id) ==
  /\ ~effectPending
  /\ id \in enemies
  /\ comp[id].isAttacking
  /\ comp' = [comp EXCEPT ![id].isAttacking = FALSE]
  /\ UNCHANGED <<gameState, enemies, playerPos, block, now, effectPending,
                 spawnInterval, spawned, lastOp, deathEvents, deaths, focus,
                 frameNo, hits, vehicleVars, playerVars>>

\* updatePlayerPosition(newPosition)
UpdatePlayerPosition(p) ==
  /\ ~effectPending
  /\ playerPos' = p
  /\ UNCHANGED <<gameState, enemies, comp, block, now, effectPending,
                 spawnInterval, spawned, lastOp, deathEvents, deaths, focus,
                 frameNo, hits, vehicleVars, playerVars>>

\* Time passes.
Tick ==
  /\ now < StartTime + MaxTicks * ClockStep
  /\ now' = now + ClockStep
  /\ UNCHANGED <<gameState, enemies, comp, playerPos, block, effectPending,
                 spawnInterval, spawned, lastOp, deathEvents, deaths, focus,
                 frameNo, hits, vehicleVars, playerVars>>

\* takeDamage(amount) called from the frame loop, as handlePlayerAttack
\* does from the useFrame callback of Player: setEnemy and the setEnemies
\* and setGameState of onDeath are queued and rendered after the frame
\* loop.  A fatal call raises the death event at once; the enemy stays in
\* the collection, with the state of its last render, until CommitDeath.
TakeDamageInFrame(id, amount) ==
  /\ ~effectPending
  /\ id \in enemies
  /\ id \notin DOMAIN deathEvents
  /\ hits < MaxHits
  /\ hits' = hits + 1
  /\ LET newHealth == Max(0, comp[id].registeredHealth - amount)
         isDead == newHealth <= 0
     IN  IF isDead
           THEN /\ deathEvents' = [i \in DOMAIN deathEvents \cup {id} |-> 1]
                /\ UNCHANGED comp
           ELSE /\ comp' = [comp EXCEPT ![id].health = newHealth,
                                        ![id].isDead = isDead,
                                        ![id].damageTaken = @ + amount]
                /\ UNCHANGED deathEvents
  /\ lastOp' = Call("takeDamage", id, amount, FALSE, comp[id].health)
  /\ UNCHANGED <<gameState, enemies, deaths, playerPos, block, now,
                 effectPending, spawnInterval, spawned, focus, frameNo,
                 vehicleVars, playerVars>>

\* The render that follows: the updater of handleEnemyDeath removes the
\* enemies whose death was reported (their components are unmounted) and
\* the score rises by 10 for each.
CommitDeath ==
  LET dead == enemies \cap DOMAIN deathEvents
  IN  /\ ~effectPending
      /\ dead # {}
      /\ enemies' = enemies \ dead
      /\ comp' = [i \in enemies' |-> comp[i]]
      /\ gameState' = [gameState EXCEPT !.score = @ + 10 * Cardinality(dead)]
      /\ deaths' = deaths + Cardinality(dead)
      /\ lastOp' = Call("handleEnemyDeath", NoEnemy, 0, FALSE,
                        gameState.playerHealth)
      /\ UNCHANGED <<playerPos, block, now, effectPending, spawnInterval,
                     spawned, deathEvents, focus, frameNo, hits, vehicleVars,
                     playerVars>>

---------------------------------------------------------------------------
(* Witcher game: Player.tsx, and handlePlayerAttack of Game.tsx.  The      *)
(* player is followed on the axis it faces: it looks along +1, the camera  *)
(* stands behind it, so moveForward walks towards +1 and moveBackward      *)
(* alone backs towards -1 without turning.                                 *)

\* Numbers of Player and handlePlayerAttack, distances x100.
playerData ==
  [ moveSpeed     |-> 15,     \* moveSpeed: 0.15, times delta * 60
    boundaryLimit |-> 5000,   \* const boundaryLimit = 50
    attackRange   |-> 250 ]   \* const attackRange = 2.5

\* The movement keys of a frame.
MoveKeys == [moveForward : BOOLEAN, moveBackward : BOOLEAN]

NoMove == [moveForward |-> FALSE, moveBackward |-> FALSE]

\* The group position after the movement part of a frame with
\* delta = k / 60.  Backward alone (moveDirection has length 0) steps
\* against the facing; a forward key (alone, or with backward, whose 30%
\* influence leaves the normalized direction at +1) steps along it and the
\* result is clamped to the boundary.
PlayerMove(pos, keys, k) ==
  LET moveDistance == playerData.moveSpeed * k
  IN  IF keys.moveBackward /\ ~keys.moveForward
        THEN pos - moveDistance
      ELSE IF keys.moveForward
        THEN Max(-playerData.boundaryLimit,
                 Min(playerData.boundaryLimit, pos + moveDistance))
      ELSE pos

\* An enemy at offset d from the attack position, of a player that faces
\* +1, is hit: distance <= attackRange, and the normalized offset has a dot
\* product with the direction above cos(attackAngle / 2), which on the axis
\* is the case for d > 0 only (1 in front, -1 behind, 0 at distance 0).
InAttackArea(d) == Abs(d) <= playerData.attackRange /\ d > 0

\* handlePlayerAttack(position, direction): every enemy of the collection
\* whose group is in the attack area gets takeDamage(20), computed as in
\* TakeDamage from the enemy its stored closure holds.
HandlePlayerAttack(position) ==
  LET amount == enemyData.playerDamage
      targets == {id \in enemies :
                    InAttackArea(comp[id].groupPosition - position)}
      newHealth(id) == Max(0, comp[id].registeredHealth - amount)
      dead == {id \in targets : newHealth(id) <= 0}
  IN  /\ enemies' = enemies \ dead
      /\ comp' = [id \in enemies' |->
                    IF id \in targets
                      THEN [comp[id] EXCEPT !.health = newHealth(id),
                                            !.damageTaken = @ + amount]
                      ELSE comp[id]]
      /\ gameState' = [gameState EXCEPT !.score = @ + 10 * Cardinality(dead)]
      /\ deaths' = deaths + Cardinality(dead)
      /\ deathEvents' =
           [i \in DOMAIN deathEvents \cup dead |->
              (IF i \in DOMAIN deathEvents THEN deathEvents[i] ELSE 0)
                + (IF i \in dead THEN 1 ELSE 0)]
      /\ hits' = hits + Cardinality(targets)
      /\ lastOp' = Call("handlePlayerAttack", NoEnemy, amount, FALSE,
                        gameState.playerHealth)

\* The useFrame callback of Player with delta = k / 60.  The attack test
\* and the block test both read the player of the render the callback
\* closes over; their updates are queued and applied together.  onAttack
\* gets player.position, the position of that render.  hits counts the
\* takeDamage calls and caps the attacks that are followed.
PlayerFrame(keys, k) ==
  /\ ~effectPending
  /\ playerPos' = PlayerMove(playerPos, keys, k)
  /\ LET attacks == attack /\ ~player.isAttacking /\ ~player.isBlocking
         blocks == block /\ ~player.isAttacking /\ ~player.isBlocking
         unblocks == ~block /\ player.isBlocking
     IN  /\ attacks => hits < MaxHits
         /\ player' = [isAttacking |-> IF attacks THEN TRUE
                                       ELSE player.isAttacking,
                       isBlocking  |-> IF blocks THEN TRUE
                                       ELSE IF unblocks THEN FALSE
                                       ELSE player.isBlocking]
         /\ IF attacks
              THEN HandlePlayerAttack(playerPos)
              ELSE UNCHANGED <<gameState, enemies, comp, lastOp, deathEvents,
                               deaths, hits>>
  /\ UNCHANGED <<block, now, effectPending, spawnInterval, spawned, focus,
                 frameNo, attack, vehicleVars>>

\* The timeout an attack sets (500 ms): isAttacking back to false.
PlayerAttackEnd ==
  /\ ~effectPending
  /\ player.isAttacking
  /\ player' = [player EXCEPT !.isAttacking = FALSE]
  /\ UNCHANGED <<witcherVars, attack, vehicleVars>>

\* useGameControls: mouse button 0 down / up sets / clears controls.attack.
AttackButtonDown ==
  /\ ~effectPending
  /\ attack' = TRUE
  /\ UNCHANGED <<witcherVars, player, vehicleVars>>

AttackButtonUp ==
  /\ ~effectPending
  /\ attack' = FALSE
  /\ UNCHANGED <<witcherVars, player, vehicleVars>>

---------------------------------------------------------------------------
(* Spec: a session of the witcher game at the level of the Game handlers:  *)
(* enemy attacks, enemy deaths, the block button, restarts and spawns.     *)

\* No driving demo runs.
VehicleOff ==
  /\ program = "witcher"
  /\ speed = 0
  /\ steeringAngle = 0
  /\ turn = 0
  /\ moved = 0
  /\ carY = 0
  /\ carRef = FALSE
  /\ sceneRef = FALSE
  /\ shoot = FALSE
  /\ lastShotTime = 0
  /\ projectiles = << >>
  /\ sceneMeshes = {}
  /\ shots = 0
  /\ spawnTimes = << >>
  /\ fixedDelta = 0
  /\ frames = 0
  /\ elapsed = 0
  /\ travelled = 0
  /\ heading = 0

\* Game after its first render: the spawn effect is due.
\* The flags of the Player state at mount.
initialPlayer == [isAttacking |-> FALSE, isBlocking |-> FALSE]

InitGame(foci) ==
  /\ gameState = initialGameState
  /\ enemies = {}
  /\ comp = EmptyMap
  /\ playerPos = 0
  /\ block = FALSE
  /\ now = StartTime
  /\ effectPending = TRUE
  /\ spawnInterval = FALSE
  /\ spawned = 0
  /\ lastOp = NoCall
  /\ deathEvents = EmptyMap
  /\ deaths = 0
  /\ focus \in foci
  /\ frameNo = 0
  /\ hits = 0
  /\ attack = FALSE
  /\ player = initialPlayer

Init == VehicleOff /\ InitGame({NoEnemy})

Next ==
  \/ SpawnEffect(ParkedPosition)
  \/ \E type \in EnemyTypes : SpawnTimer(type)
  \/ HandleMouseDown
  \/ HandleMouseUp
  \/ \E id \in enemies : EnemyAttacks(id)
  \/ \E id \in enemies : EnemyDies(id)
  \/ HandleRestart

Spec == Init /\ [][Next]_vars

---------------------------------------------------------------------------
(* SpecDamage: the initial batch under takeDamage calls and restarts.      *)

NextDamage ==
  \/ SpawnEffect(ParkedPosition)
  \/ \E id \in enemies, amount \in Amounts : TakeDamage(id, amount)
  \/ HandleRestart

SpecDamage == Init /\ [][NextDamage]_vars

---------------------------------------------------------------------------
(* SpecEnemy: the frames of one enemy of the initial batch, which starts   *)
(* inside its attack radius, just outside it or on its detection radius,   *)
(* while the player moves and time passes.                                 *)

StartPositions(type) ==
  { baseStats[type].attackRadius \div 2,
    baseStats[type].attackRadius + 10,
    baseStats[type].detectionRadius }

\* delta * 60 of an enemy frame: 60 Hz and 30 Hz.
EnemyDeltas == {1, 2}

InitEnemy ==
  /\ VehicleOff
  /\ InitGame({EnemyId("wolf", 0), EnemyId("bear", 1), EnemyId("deer", 0)})

NextEnemy ==
  \/ \E pos \in StartPositions(focus.type) : SpawnEffect(pos)
  \/ \E k \in EnemyDeltas, sync \in {"queued", "rendered"} :
        EnemyFrame(focus, k, sync)
  \/ AttackAnimationEnd(focus)
  \/ \E p \in PlayerPositions : UpdatePlayerPosition(p)
  \/ Tick

SpecEnemy == InitEnemy /\ [][NextEnemy]_vars

---------------------------------------------------------------------------
(* SpecRestart: a session in which the player walks and blocks, enemies    *)
(* attack until the game is over, and the game is restarted.               *)

NextRestart ==
  \/ SpawnEffect(ParkedPosition)
  \/ \E p \in PlayerPositions : UpdatePlayerPosition(p)
  \/ HandleMouseDown
  \/ HandleMouseUp
  \/ \E id \in enemies : EnemyAttacks(id)
  \/ HandleRestart

SpecRestart == Init /\ [][NextRestart]_vars

---------------------------------------------------------------------------
(* SpecChase: one wolf or bear and a player who stands still at the        *)
(* origin; the frames come at 60 Hz, at 30 Hz or after a stall of the      *)
(* render loop, whose delta useFrame hands over uncapped.                  *)

\* delta * 60 of the first frame after the render loop stood still for 2 s.
StallDelta == 120

ChaseDeltas == EnemyDeltas \cup {StallDelta}

InitChase ==
  /\ VehicleOff
  /\ InitGame({EnemyId("wolf", 0), EnemyId("bear", 1)})

NextChase ==
  \/ \E pos \in StartPositions(focus.type) : SpawnEffect(pos)
  \/ \E k \in ChaseDeltas, sync \in {"queued", "rendered"} :
        EnemyFrame(focus, k, sync)
  \/ AttackAnimationEnd(focus)
  \/ Tick

SpecChase == InitChase /\ [][NextChase]_vars

---------------------------------------------------------------------------
(* SpecVehicle: either driving demo under any sequence of control flags    *)
(* and deltas.                                                             *)

\* The driving state after the scene is built: createCar has run
\* (car.position.set(0, 0.8, 0) in the hover tank, (0, 0, 0) in the plain
\* car), nothing has been fired, no timed run is followed.
InitDriving ==
  /\ speed = 0
  /\ steeringAngle = 0
  /\ turn = 0
  /\ moved = 0
  /\ carY = (IF program = "tank" THEN 8000 ELSE 0)
  /\ carRef = TRUE
  /\ sceneRef = TRUE
  /\ shoot = FALSE
  /\ lastShotTime = 0
  /\ projectiles = << >>
  /\ sceneMeshes = {}
  /\ shots = 0
  /\ spawnTimes = << >>
  /\ fixedDelta = 0
  /\ frames = 0
  /\ elapsed = 0
  /\ travelled = 0
  /\ heading = 0

InitVehicle ==
  /\ program \in {"tank", "plain"}
  /\ InitDriving
  /\ InitGame({NoEnemy})

NextVehicle ==
  \/ \E c \in Controls, k \in Deltas :
        TankUpdateCar(c, k) /\ UNCHANGED <<gunVars, runVars>>
  \/ \E c \in Controls :
        PlainUpdateCar(c) /\ UNCHANGED <<gunVars, runVars>>

SpecVehicle == InitVehicle /\ [][NextVehicle]_vars

---------------------------------------------------------------------------
(* SpecHeldForward: either driving demo with the forward key held and the  *)
(* backward key up from speed 0, every frame at the same delta; the left   *)
(* and right keys are free.                                                *)

\* Frames of a fixed-delta run that are followed.
MaxFrames == 90

ForwardHeld == {c \in Controls : c.forward /\ ~c.backward}

InitHeldForward ==
  /\ program \in {"tank", "plain"}
  /\ speed = 0
  /\ steeringAngle = 0
  /\ turn = 0
  /\ moved = 0
  /\ carY = (IF program = "tank" THEN 8000 ELSE 0)
  /\ carRef = TRUE
  /\ sceneRef = TRUE
  /\ shoot = FALSE
  /\ lastShotTime = 0
  /\ projectiles = << >>
  /\ sceneMeshes = {}
  /\ shots = 0
  /\ spawnTimes = << >>
  /\ fixedDelta \in (IF program = "tank" THEN Deltas ELSE {1})
  /\ frames = 0
  /\ elapsed = 0
  /\ travelled = 0
  /\ heading = 0
  /\ InitGame({NoEnemy})

NextHeldForward ==
  \/ \E c \in ForwardHeld :
        /\ frames < MaxFrames
        /\ TankUpdateCar(c, fixedDelta)
        /\ frames' = frames + 1
        /\ UNCHANGED <<fixedDelta, elapsed, travelled, heading, gunVars>>
  \/ \E c \in ForwardHeld :
        /\ frames < MaxFrames
        /\ PlainUpdateCar(c)
        /\ frames' = frames + 1
        /\ UNCHANGED <<fixedDelta, elapsed, travelled, heading, gunVars>>

SpecHeldForward == InitHeldForward /\ [][NextHeldForward]_vars

---------------------------------------------------------------------------
(* SpecTank: the hover tank standing still while its cannon is fired from  *)
(* the keyboard and the on-screen button, frames run and the clock runs.   *)
(* SpecTankFair adds that the animation loop keeps running.                *)

InitTank ==
  /\ program = "tank"
  /\ speed = 0
  /\ steeringAngle = 0
  /\ turn = 0
  /\ moved = 0
  /\ carY = 8000
  /\ carRef = TRUE
  /\ sceneRef = TRUE
  /\ shoot = FALSE
  /\ lastShotTime = 0
  /\ projectiles = << >>
  /\ sceneMeshes = {}
  /\ shots = 0
  /\ spawnTimes = << >>
  /\ fixedDelta \in Deltas
  /\ frames = 0
  /\ elapsed = 0
  /\ travelled = 0
  /\ heading = 0
  /\ InitGame({NoEnemy})

\* One animation frame of the run's frame time, no driving key held.
TankFrame == Animate(NoKeys, fixedDelta) /\ UNCHANGED runVars

\* Clock steps followed while the cannon is fired.
MaxTankTicks == 3

\* performance.now() moves on by half a reload time between two events or
\* frames.
TankTick ==
  /\ now < StartTime + MaxTankTicks * (gunData.reloadTime \div 2)
  /\ now' = now + gunData.reloadTime \div 2
  /\ UNCHANGED <<gameState, enemies, comp, playerPos, block, effectPending,
                 spawnInterval, spawned, lastOp, deathEvents, deaths, focus,
                 frameNo, hits, vehicleVars, playerVars>>

NextTank ==
  \/ TankFrame
  \/ KeyDownShoot
  \/ KeyUpShoot
  \/ ButtonDownShoot
  \/ ButtonUpShoot
  \/ TankTick

SpecTank == InitTank /\ [][NextTank]_vars

SpecTankFair == SpecTank /\ WF_vars(TankFrame)

---------------------------------------------------------------------------
(* SpecHandles: updateCar, updateProjectiles and handleShoot of the hover   *)
(* tank called at each stage of the set-up: before the scene exists (the   *)
(* key listeners are registered even when the canvas is missing), with the *)
(* scene but before createCar, and with both handles.                      *)

\* Frames followed per run.
MaxHandleFrames == 6

\* The forward key alone.
ForwardKey == [NoKeys EXCEPT !.forward = TRUE]

\* sceneRef is set before createCar sets carRef.
HandleStages ==
  { <<FALSE, FALSE>>, <<FALSE, TRUE>>, <<TRUE, TRUE>> }

InitHandles ==
  /\ program = "tank"
  /\ speed = 0
  /\ steeringAngle = 0
  /\ turn = 0
  /\ moved = 0
  /\ carY = 8000
  /\ \E stage \in HandleStages : carRef = stage[1] /\ sceneRef = stage[2]
  /\ shoot = FALSE
  /\ lastShotTime = 0
  /\ projectiles = << >>
  /\ sceneMeshes = {}
  /\ shots = 0
  /\ spawnTimes = << >>
  /\ fixedDelta \in Deltas
  /\ frames = 0
  /\ elapsed = 0
  /\ travelled = 0
  /\ heading = 0
  /\ InitGame({NoEnemy})

\* One call of updateCar and updateProjectiles, whatever the handles.
HandlesFrame ==
  /\ frames < MaxHandleFrames
  /\ frames' = frames + 1
  /\ \E c \in {NoKeys, ForwardKey} : Animate(c, fixedDelta)
  /\ UNCHANGED <<fixedDelta, elapsed, travelled, heading>>

NextHandles ==
  \/ HandlesFrame
  \/ KeyDownShoot
  \/ KeyUpShoot
  \/ ButtonDownShoot
  \/ ButtonUpShoot
  \/ TankTick

SpecHandles == InitHandles /\ [][NextHandles]_vars

---------------------------------------------------------------------------
(* SpecRelease: the keys that hold a value are released.  The hover tank   *)
(* starts at rest with any steering angle in range and runs frames with    *)
(* the left and right keys up; the plain car starts at any speed in range  *)
(* and runs frames with the forward and backward keys up.  The animation   *)
(* loop keeps running.                                                     *)

SteeringReleased == {c \in Controls : ~c.left /\ ~c.right}

PedalsReleased == {c \in Controls : ~c.forward /\ ~c.backward}

InitRelease ==
  /\ program \in {"tank", "plain"}
  /\ IF program = "tank"
       THEN /\ speed = 0
            /\ steeringAngle \in
                 -tankCarData.maxSteeringAngle .. tankCarData.maxSteeringAngle
            /\ carY = 8000
       ELSE /\ speed \in -(plainCarData.maxSpeed \div 2) .. plainCarData.maxSpeed
            /\ steeringAngle = 0
            /\ carY = 0
  /\ turn = 0
  /\ moved = speed
  /\ carRef = TRUE
  /\ sceneRef = TRUE
  /\ shoot = FALSE
  /\ lastShotTime = 0
  /\ projectiles = << >>
  /\ sceneMeshes = {}
  /\ shots = 0
  /\ spawnTimes = << >>
  /\ fixedDelta = 0
  /\ frames = 0
  /\ elapsed = 0
  /\ travelled = 0
  /\ heading = 0
  /\ InitGame({NoEnemy})

NextRelease ==
  \/ \E c \in SteeringReleased, k \in Deltas :
        TankUpdateCar(c, k) /\ UNCHANGED <<gunVars, runVars>>
  \/ \E c \in PedalsReleased :
        PlainUpdateCar(c) /\ UNCHANGED <<gunVars, runVars>>

SpecRelease == InitRelease /\ [][NextRelease]_vars /\ WF_vars(NextRelease)

---------------------------------------------------------------------------
(* SpecIdle: either driving demo while the clock runs: the hover tank with *)
(* the forward and backward keys up, the plain car under any keys.         *)

SteeringOnly == {c \in Controls : ~c.forward /\ ~c.backward}

NextIdle ==
  \/ \E c \in SteeringOnly, k \in Deltas :
        TankUpdateCar(c, k) /\ UNCHANGED <<gunVars, runVars>>
  \/ \E c \in Controls :
        PlainUpdateCar(c) /\ UNCHANGED <<gunVars, runVars>>
  \/ Tick

SpecIdle == InitVehicle /\ [][NextIdle]_vars

---------------------------------------------------------------------------
(* SpecFrameRate: the hover tank at maxSpeed with forward held and the     *)
(* steering at rest or held at a limit, over a stretch of time stepped in  *)
(* 60 Hz and 30 Hz frames in any order.                                    *)

\* Reference frames (1/60 s) of the stretch of time that is followed.
MaxElapsed == 16

\* The keys that hold the steering angle where it is, with forward held.
HeldKeys ==
  [forward |-> TRUE, backward |-> FALSE,
   left |-> steeringAngle > 0, right |-> steeringAngle < 0]

InitFrameRate ==
  /\ program = "tank"
  /\ speed = tankCarData.maxSpeed
  /\ steeringAngle \in {0, tankCarData.maxSteeringAngle, -tankCarData.maxSteeringAngle}
  /\ turn = TankTurn(steeringAngle, speed)
  /\ moved = speed
  /\ carY = HoverHeight(StartTime)
  /\ carRef = TRUE
  /\ sceneRef = TRUE
  /\ shoot = FALSE
  /\ lastShotTime = 0
  /\ projectiles = << >>
  /\ sceneMeshes = {}
  /\ shots = 0
  /\ spawnTimes = << >>
  /\ fixedDelta = 0
  /\ frames = 0
  /\ elapsed = 0
  /\ travelled = 0
  /\ heading = 0
  /\ InitGame({NoEnemy})

NextFrameRate ==
  \E k \in {1, 2} :
    /\ elapsed + k <= MaxElapsed
    /\ TankUpdateCar(HeldKeys, k)
    /\ elapsed' = elapsed + k
    /\ travelled' = travelled + moved'
    /\ heading' = heading + turn'
    /\ UNCHANGED <<fixedDelta, frames, gunVars>>

SpecFrameRate == InitFrameRate /\ [][NextFrameRate]_vars

---------------------------------------------------------------------------
(* SpecDeath: one enemy of the initial batch is hit from the frame loop and *)
(* runs its own frames; the render that removes a dead enemy comes after   *)
(* the frame loop of the fatal hit.                                        *)

InitDeath ==
  /\ VehicleOff
  /\ InitGame({EnemyId("wolf", 0), EnemyId("deer", 0)})

NextDeath ==
  \/ \E pos \in StartPositions(focus.type) : SpawnEffect(pos)
  \/ \E amount \in Amounts : TakeDamageInFrame(focus, amount)
  \/ \E k \in EnemyDeltas, sync \in {"queued", "rendered"} :
       EnemyFrame(focus, k, sync)
  \/ CommitDeath
  \/ Tick

SpecDeath == InitDeath /\ [][NextDeath]_vars

---------------------------------------------------------------------------
(* SpecCombat: the player in front of, behind or away from one enemy of    *)
(* the initial batch, with the attack and block buttons pressed and        *)
(* released between frames and a few steps walked.                         *)

\* Where the followed enemy is spawned: behind the player, in front of it,
\* on the attack range and just beyond it.
CombatPositions == {-100, 100, playerData.attackRange,
                    playerData.attackRange + 10}

\* How far from its start the player walks during the fight.
CombatWalk == 30

InitCombat ==
  /\ VehicleOff
  /\ InitGame({EnemyId("wolf", 0), EnemyId("deer", 0)})

NextCombat ==
  \/ \E pos \in CombatPositions : SpawnEffect(pos)
  \/ \E keys \in MoveKeys, k \in EnemyDeltas :
       /\ Abs(PlayerMove(playerPos, keys, k)) <= CombatWalk
       /\ PlayerFrame(keys, k)
  \/ PlayerAttackEnd
  \/ AttackButtonDown
  \/ AttackButtonUp
  \/ HandleMouseDown
  \/ HandleMouseUp

SpecCombat == InitCombat /\ [][NextCombat]_vars

---------------------------------------------------------------------------
(* SpecWalk: the player walks with any movement keys, frame after frame.   *)

\* The walk is followed up to this distance from the start.
WalkLimit == 5100

NextWalk ==
  \/ SpawnEffect(ParkedPosition)
  \/ \E keys \in MoveKeys, k \in EnemyDeltas :
       /\ Abs(playerPos) <= WalkLimit
       /\ PlayerFrame(keys, k)

SpecWalk == Init /\ [][NextWalk]_vars

---------------------------------------------------------------------------
(* Claims about the vehicles *)

\* carData.maxSpeed of the demo that runs, in its own fixed point.
MaxSpeedOf(p) == IF p = "tank" THEN tankCarData.maxSpeed ELSE plainCarData.maxSpeed

\* C1: after every vehicle frame step, under any sequence of control flags
\* and deltas, speed lies in [-maxSpeed * 0.5, maxSpeed], in the hover tank
\* and in the plain car.
C1_SpeedWithinLimits ==
  /\ speed <= MaxSpeedOf(program)
  /\ 2 * speed >= -MaxSpeedOf(program)

\* C1 witness: a frame has driven the hover tank into the reverse limit.
C1_Witness ==
  /\ program = "tank"
  /\ moved = speed
  /\ 2 * speed = -tankCarData.maxSpeed

\* C2: after every hover-tank frame step, under any sequence of left / right
\* flags and deltas, |steeringAngle| <= maxSteeringAngle.
C2_SteeringWithinLimits ==
  program = "tank" => Abs(steeringAngle) <= tankCarData.maxSteeringAngle

\* C2 witness: frames have steered the hover tank into the right-hand limit
\* while it moves.
C2_Witness ==
  /\ program = "tank"
  /\ steeringAngle = -tankCarData.maxSteeringAngle
  /\ moved > 0

\* A frame step of either demo with all control flags false.
IdleFrame ==
  \/ \E k \in Deltas : TankUpdateCar(NoKeys, k)
  \/ PlainUpdateCar(NoKeys)

\* C11 as stated: a frame step with all control flags false at speed 0
\* leaves every coordinate of the position unchanged and speed at 0.
C11_IdleFrameKeepsPosition ==
  [][ (speed = 0 /\ IdleFrame) =>
        (speed' = 0 /\ moved' = 0 /\ carY' = carY) ]_vars

\* C11 amended: a frame step with all control flags false at speed 0 leaves
\* x, z and the heading unchanged and speed at 0; the plain car's y stays 0,
\* the hover tank's y becomes the hover height of the wall clock.
C11_IdleFrameKeepsGroundPosition ==
  [][ (speed = 0 /\ IdleFrame) =>
        /\ speed' = 0
        /\ moved' = 0
        /\ turn' = 0
        /\ program = "plain" => carY' = 0 /\ carY = 0
        /\ program = "tank" => carY' = 8000 + SinMilli(3 * now) ]_vars

\* C11 witness: the hover tank stands still after frames at two different
\* times, away from its starting height.
C11_Witness ==
  /\ program = "tank"
  /\ speed = 0
  /\ moved = 0
  /\ now > StartTime
  /\ carY # 8000
  /\ carY = HoverHeight(now)

\* C12: at maxSpeed with forward held and a fixed steering angle, the
\* distance travelled and the heading change over an elapsed time do not
\* depend on how the time is cut into frames: they are what 60 Hz frames
\* give, maxSpeed and the turn of one frame per 1/60 s.
C12_FrameRateIndependent ==
  /\ travelled = tankCarData.maxSpeed * elapsed
  /\ heading = steeringAngle * tankCarData.maxSpeed * elapsed

\* A press of the shoot control: the space bar or the on-screen button.
ShootEvent == KeyDownShoot \/ ButtonDownShoot

\* C13: two successive projectile spawns are more than reloadTime apart, and
\* a shoot event at most reloadTime after the last spawn changes neither the
\* projectile list nor lastShotTime.
C13_ReloadSeparatesShots ==
  /\ [](Len(spawnTimes) = 2 => spawnTimes[2] - spawnTimes[1] > 1000)
  /\ [][ (ShootEvent /\ now - lastShotTime <= 1000) =>
            (projectiles' = projectiles /\ lastShotTime' = lastShotTime) ]_vars

\* C13 witness: two projectiles were fired 1.5 s apart, the shoot control is
\* down and the reload time of the second has not passed.
C13_Witness ==
  /\ shots = 2
  /\ Len(spawnTimes) = 2
  /\ spawnTimes[2] - spawnTimes[1] = 1500
  /\ shoot
  /\ now - lastShotTime <= 1000

\* C14: no projectile stays in the list at or below the height 0.3 or older
\* than 5 s, the scene holds exactly the listed projectiles, and a scene
\* that holds projectiles is eventually a scene without any: every spawned
\* projectile is eventually out of the scene and the list.
C14_ProjectileRemoved ==
  /\ [](\A i \in 1..Len(projectiles) :
          /\ projectiles[i].y > 3000
          /\ projectiles[i].lifeTime <= 300)
  /\ [](sceneMeshes = {projectiles[i].id : i \in 1..Len(projectiles)})
  /\ (sceneMeshes # {}) ~> (sceneMeshes = {})

\* C14 witness: both projectiles were fired and both have left the scene and
\* the list.
C14_Witness ==
  /\ shots = 2
  /\ sceneMeshes = {}
  /\ projectiles = << >>

\* C18: without the car handle a frame leaves the motion state as it was;
\* without the scene handle a frame leaves the projectiles and the scene as
\* they were; without either handle a press of the shoot control spawns
\* nothing and leaves lastShotTime as it was.
C18_MissingHandlesNoOp ==
  [][ /\ (~carRef /\ HandlesFrame) =>
           UNCHANGED <<speed, steeringAngle, turn, moved, carY>>
      /\ (~sceneRef /\ HandlesFrame) =>
           UNCHANGED <<projectiles, sceneMeshes>>
      /\ (~(carRef /\ sceneRef) /\ ShootEvent) =>
           UNCHANGED <<projectiles, sceneMeshes, shots, lastShotTime,
                       spawnTimes>> ]_vars

\* C18 witness: with the scene but no car, frames have run with the reload
\* time passed and the shoot control is down: nothing moved, nothing was
\* fired.
C18_Witness ==
  /\ ~carRef
  /\ sceneRef
  /\ frames = MaxHandleFrames
  /\ shoot
  /\ now - lastShotTime > 1000
  /\ shots = 0
  /\ speed = 0
  /\ carY = 8000

\* C20: a key-down of the shoot key while the shoot flag is already true
\* spawns no projectile.
C20_ShotOnlyOnEdge ==
  [][ (shoot /\ KeyDownShoot) => (shots' = shots /\ projectiles' = projectiles) ]_vars

\* C10: with forward held and backward up, frame after frame at one delta
\* from speed 0, every frame below maxSpeed strictly increases speed without
\* passing maxSpeed, and every frame at maxSpeed leaves speed at maxSpeed.
C10_ForwardHeldRamp ==
  [][ frames' = frames + 1 =>
        /\ speed < MaxSpeedOf(program) =>
             (speed' > speed /\ speed' <= MaxSpeedOf(program))
        /\ speed = MaxSpeedOf(program) => speed' = MaxSpeedOf(program) ]_vars

\* C10 witness: the hover tank has reached maxSpeed at 60 Hz frames and has
\* run a further frame there.
C10_Witness ==
  /\ program = "tank"
  /\ fixedDelta = 1
  /\ speed = tankCarData.maxSpeed
  /\ frames = MaxFrames

\* C23: with the left and right keys up, a hover-tank frame never increases
\* |steeringAngle|, never flips its sign and strictly decreases it while it
\* is not 0; the steering angle ends at 0 and stays there.
C23_SteeringReturns ==
  /\ [][ program = "tank" =>
            /\ Abs(steeringAngle') <= Abs(steeringAngle)
            /\ steeringAngle # 0 => Abs(steeringAngle') < Abs(steeringAngle)
            /\ steeringAngle * steeringAngle' >= 0
            /\ steeringAngle = 0 => steeringAngle' = 0 ]_vars
  /\ <>[](program = "tank" => steeringAngle = 0)

\* C23 witness: the tank has run a frame (it has gained speed) and its
\* steering angle is on its way back, not yet at 0.
C23_Witness ==
  /\ program = "tank"
  /\ speed # 0
  /\ steeringAngle = 10

\* C24: with the forward and backward keys up, a plain-car frame never
\* increases |speed|, strictly decreases it while it is not 0 and never
\* flips its sign; the speed ends at exactly 0
\* and stays there, and the car no longer moves.
C24_PlainCarStops ==
  /\ [][ program = "plain" =>
            /\ Abs(speed') <= Abs(speed)
            /\ speed # 0 => Abs(speed') < Abs(speed)
            /\ speed * speed' >= 0
            /\ speed = 0 => (speed' = 0 /\ moved' = 0) ]_vars
  /\ <>[](program = "plain" => (speed = 0 /\ moved = 0))

\* C24 witness: the plain car has run a frame (it has turned) and rolls
\* backwards, slower than the reverse limit, not yet at rest.
C24_Witness ==
  /\ program = "plain"
  /\ turn # 0
  /\ speed < 0
  /\ speed > -(plainCarData.maxSpeed \div 2)

\* A frame step of either demo with the backward key held and the forward
\* key up.
BackwardFrame ==
  \E c \in {b \in Controls : b.backward /\ ~b.forward} :
    \/ \E k \in Deltas : TankUpdateCar(c, k)
    \/ PlainUpdateCar(c)

\* C22: a frame with backward held that starts at speed > 0 does not end
\* with speed < 0, and a frame that ends with a more negative speed than it
\* started with started at speed <= 0.
C22_BrakingStopsAtZero ==
  [][ /\ (speed > 0 /\ BackwardFrame) => speed' >= 0
      /\ (speed' < 0 /\ speed' < speed) => speed <= 0 ]_vars

\* C25: after a hover-tank frame the heading change is 0 when the speed is 0
\* and otherwise has the sign of steeringAngle * speed.
C25_TurnFollowsSpeedSign ==
  program = "tank" =>
    /\ speed = 0 => turn = 0
    /\ Sign(turn) = Sign(steeringAngle) * Sign(speed)

\* C25 witness: the tank reverses with the steering to the left and turns
\* to the right.
C25_Witness ==
  /\ program = "tank"
  /\ speed < 0
  /\ steeringAngle > 0
  /\ turn < 0

---------------------------------------------------------------------------
(* Claims about the witcher session *)

\* C3: after an enemy frame whose distance d to the player satisfied
\* attackRadius < d <= detectionRadius, the enemy's aggroState is chase for
\* a wolf or bear and flee for a deer.
C3_ChaseOrFleeInRange ==
  \A id \in enemies :
    LET d == comp[id].frameDistance
    IN  (baseStats[id.type].attackRadius < d
           /\ d <= baseStats[id.type].detectionRadius) =>
          comp[id].aggroState = (IF id.type = "deer" THEN "flee" ELSE "chase")

\* C3 witness: a wolf has run a frame at exactly its detection radius and
\* chases.
C3_Witness ==
  /\ focus = EnemyId("wolf", 0)
  /\ focus \in enemies
  /\ comp[focus].frameDistance = baseStats.wolf.detectionRadius
  /\ comp[focus].aggroState = "chase"

\* C4: the last two attack events of an enemy are at least attackCooldown
\* = 1000 ms apart.
C4_AttackCooldown ==
  \A id \in enemies :
    Len(comp[id].attackTimes) = 2 =>
      comp[id].attackTimes[2] - comp[id].attackTimes[1] >= 1000

\* C4 witness: an enemy has attacked twice, and the player has since left
\* its attack radius.
C4_Witness ==
  /\ focus \in enemies
  /\ Len(comp[focus].attackTimes) = 2
  /\ comp[focus].aggroState = "chase"
  /\ gameState.playerHealth < 100

\* C15: a deer is never in the attack or chase state and never attacks or
\* damages the player, at any distance including 0; a wolf or bear is never
\* in the flee state.
C15_DeerFleesPredatorsHunt ==
  /\ \A id \in enemies :
        IF id.type = "deer"
          THEN /\ comp[id].aggroState \in {"idle", "flee"}
               /\ comp[id].attackTimes = << >>
               /\ ~comp[id].isAttacking
          ELSE comp[id].aggroState # "flee"
  /\ focus.type = "deer" => gameState.playerHealth = initialGameState.playerHealth

\* C15 witness: a deer has run a frame at distance 0 from the player and
\* flees.
C15_Witness ==
  /\ focus = EnemyId("deer", 0)
  /\ focus \in enemies
  /\ comp[focus].frameDistance = 0
  /\ comp[focus].aggroState = "flee"
  /\ frameNo > 0

\* C16: a frame in which a wolf or bear chases a player who stands still
\* brings it strictly closer to the player and not past the player.
C16_ChaseClosesIn ==
  [][ (/\ frameNo' = frameNo + 1
       /\ focus \in enemies
       /\ comp'[focus].aggroState = "chase") =>
        LET before == comp[focus].groupPosition - playerPos
            after  == comp'[focus].groupPosition - playerPos
        IN  /\ Abs(after) < Abs(before)
            /\ Sign(after) \in {0, Sign(before)} ]_vars

\* C17: the spawn effect that follows handleRestart leaves the session as a
\* fresh one: the initial game state, the initial batch of 3 wolves, 1 bear
\* and 5 deer freshly mounted, the player at the origin and not blocking.
C17_RestartIsFreshSession ==
  [][ (lastOp.op = "handleRestart" /\ lastOp'.op = "spawnEffect") =>
        /\ gameState' = initialGameState
        /\ enemies' = InitialEnemies
        /\ comp' = [i \in InitialEnemies |-> Mount(i, ParkedPosition)]
        /\ playerPos' = 0
        /\ ~block' ]_vars

\* C5: after each takeDamage(amount) the enemy's health is
\* max(0, health before the call - amount); at 0 a death event has been
\* raised and the enemy has left the collection.
C5_DamageAccumulates ==
  lastOp.op = "takeDamage" =>
    LET expected == Max(0, lastOp.before - lastOp.amount)
    IN  IF expected = 0
          THEN lastOp.id \notin enemies /\ lastOp.id \in DOMAIN deathEvents
          ELSE lastOp.id \in enemies /\ comp[lastOp.id].health = expected

\* C19: after a takeDamage call the enemy's health is not above its health
\* before the call, it lies in [0, maxHealth], and isDead holds exactly at
\* health 0.
C19_HealthNeverIncreases ==
  (lastOp.op = "takeDamage" /\ lastOp.id \in enemies) =>
    LET enemy == comp[lastOp.id]
    IN  /\ enemy.health <= lastOp.before
        /\ 0 <= enemy.health
        /\ enemy.health <= baseStats[lastOp.id.type].maxHealth
        /\ enemy.isDead <=> enemy.health = 0

C7_PlayerDamage ==
  lastOp.op = "handleEnemyAttack" =>
    LET d == lastOp.amount
        half == CHOOSE h \in 0..d : 2 * h >= d /\ 2 * h < d + 2
        taken == IF lastOp.blocked THEN half ELSE d
    IN  gameState.playerHealth = Max(0, lastOp.before - taken)

\* C7 witness: a blocked hit of 20 received at health 80 has left 70.
C7_Witness ==
  /\ lastOp = Call("handleEnemyAttack", NoEnemy, 20, TRUE, 80)
  /\ gameState.playerHealth = 70

\* C8: handleRestart yields playerHealth = 100, score = 0, isGameActive =
\* true and an empty enemy collection.
C8_RestartResets ==
  lastOp.op = "handleRestart" =>
    /\ gameState.playerHealth = 100
    /\ gameState.score = 0
    /\ gameState.isGameActive
    /\ enemies = {}

\* C8 witness: handleRestart has run on a game that was over.
C8_Witness ==
  /\ lastOp.op = "handleRestart"
  /\ lastOp.before = 0
  /\ effectPending

\* C9: when playerHealth is 0 the session is inactive, and from playerHealth
\* 0 every step other than handleRestart leaves playerHealth 0 and
\* isGameActive false.
C9_GameOverTerminal ==
  [][ /\ gameState'.playerHealth = 0 => ~gameState'.isGameActive
      /\ (gameState.playerHealth = 0 /\ lastOp'.op # "handleRestart") =>
           (gameState'.playerHealth = 0 /\ ~gameState'.isGameActive) ]_vars

\* C9 witness: an enemy has attacked after the game was over, in a session
\* in which an enemy has died.
C9_Witness ==
  /\ ~gameState.isGameActive
  /\ gameState.playerHealth = 0
  /\ lastOp.op = "handleEnemyAttack"
  /\ lastOp.before = 0
  /\ deaths = 1

\* C27: no step taken while isGameActive is false adds an enemy to the
\* collection.
C27_NoSpawnWhileInactive ==
  [][ ~gameState.isGameActive => enemies' \subseteq enemies ]_vars

\* C28: in every state the session is active exactly when playerHealth > 0,
\* and playerHealth lies in [0, 100].
C28_ActiveIffAlive ==
  /\ gameState.isGameActive <=> gameState.playerHealth > 0
  /\ gameState.playerHealth >= 0
  /\ gameState.playerHealth <= 100

\* C28 witness: a blocked attack has taken the player's last health and the
\* session is over.
C28_Witness ==
  /\ lastOp.op = "handleEnemyAttack"
  /\ lastOp.blocked
  /\ lastOp.before > 0
  /\ gameState.playerHealth = 0
  /\ ~gameState.isGameActive

\* C29: the player's isAttacking and isBlocking flags are never both true,
\* whatever the attack and block buttons do between and during frames.
C29_NeverAttackingAndBlocking == ~(player.isAttacking /\ player.isBlocking)

\* C30: after any sequence of movement frames the player's coordinate on
\* the axis it walks stays within [-50, 50], whichever movement keys are
\* held.
C30_PlayerInsideBoundary ==
  /\ playerPos >= -playerData.boundaryLimit
  /\ playerPos <= playerData.boundaryLimit

\* C26: in a frame in which the player attacks, every enemy within distance
\* 2.5 in front of the player loses 20 health (not below 0) and every other
\* enemy keeps its health.
C26_AttackDamagesArea ==
  [][ (~player.isAttacking /\ player'.isAttacking) =>
        \A id \in enemies :
          LET d == comp[id].groupPosition - playerPos
          IN  IF d > 0 /\ d <= 250
                THEN id \in enemies' =>
                       comp'[id].health = Max(0, comp[id].health - 20)
                ELSE id \in enemies' /\ comp'[id].health = comp[id].health
    ]_vars

\* C21: an enemy whose death has been reported (its health has reached 0)
\* and which is still in the collection does not attack, does not move and
\* does not change its aggroState.
C21_DeadEnemyIsInert ==
  [][ \A id \in (enemies \cap DOMAIN deathEvents) \cap enemies' :
        /\ comp'[id].groupPosition = comp[id].groupPosition
        /\ comp'[id].aggroState = comp[id].aggroState
        /\ comp'[id].attackTimes = comp[id].attackTimes
    ]_vars

=============================================================================
